---- MODULE Spec2Model ----
(***************************************************************************)
(* RAPT integration: the authenticated, rate-limited API client            *)
(* (custom_components/rapt/api.py) and the polling/discovery coordinator   *)
(* (custom_components/rapt/coordinator.py).                                *)
(*                                                                         *)
(* Spec      : the client (token lifecycle, rate gate, 401 retry) under    *)
(*             concurrent callers on one asyncio event loop.               *)
(* SpecCoord : the coordinator (snapshot, known-device set, discovery      *)
(*             callbacks); each fetch of get_all_devices is one await      *)
(*             whose outcome is the outcome of _rate_limited_request.      *)
(***************************************************************************)
EXTENDS Integers, Sequences, FiniteSets, TLC

(***************************************************************************)
(* Bounds of the model                                                     *)
(***************************************************************************)
MaxTime == 30
MaxAuth == 2

(***************************************************************************)
(* Program constants                                                       *)
(***************************************************************************)
\* Python's None, for the optional token, expiry and last request time.
None == -1
\* api.py:106  timedelta(seconds=15)
RATE_LIMIT_SECONDS == 15
\* api.py:82   token_data.get("expires_in", 2700)
DEFAULT_EXPIRES_IN == 2700

\* Clock steps (seconds) by which the wall clock is observed to advance.
TickSteps == {5, 15}
\* expires_in values (seconds) a token response may carry.
ExpiresInValues == {10}

NoTask == "none"
\* The coroutines that call into one client instance.
Callers == {"c1", "c2"}
\* c1 runs any operation of the client, c2 runs fetches.
OpsOf(t) == IF t = "c1" THEN {"fetch", "authenticate", "validate_connection"} ELSE {"fetch"}

VARIABLES
    now,                \* datetime.now(), seconds
    bearer_token,       \* RaptApiClient._bearer_token
    token_expires_at,   \* RaptApiClient._token_expires_at
    last_request_time,  \* RaptApiClient._last_request_time
    lock_owner,         \* holder of RaptApiClient._rate_limit_lock
    lock_waiters,       \* FIFO of coroutines blocked in the lock's acquire()
    sleep_until,        \* wake-up time of the asyncio.sleep inside the gate
    pc,                 \* where each caller is suspended
    op,                 \* the client operation each caller is running
    exc,                \* the exception the caller's operation raised
    ret,                \* the value the caller's operation returned
    log,                \* what the caller's current operation has done so far
    auth_seq,           \* number of token responses stored so far
    expiry_from,        \* the token response that set token_expires_at
    last_sent,          \* when the client sent its last data request (None: never)
    token_response,     \* the answer of the token endpoint each caller's authenticate() handled
    data,               \* DataUpdateCoordinator.data: <<>> for None, else <<dict>>
    last_update_success,\* DataUpdateCoordinator.last_update_success
    devices,            \* RaptDataUpdateCoordinator._devices
    known_device_ids,   \* RaptDataUpdateCoordinator._known_device_ids
    discovery_callbacks,\* RaptDataUpdateCoordinator._discovery_callbacks
    cpc,                \* where each coordinator task is suspended
    fetched,            \* the category lists get_all_devices has fetched so far
    new_devices,        \* new_devices of a running async_discover_devices
    cb_next,            \* index of the callback a discovery is awaiting
    requested,          \* refreshes a discovery has requested
    outcome,            \* how the task's last run ended
    cb_log,             \* the callbacks a task's run has invoked, with their argument
    requests,           \* the fetches a task's get_all_devices has issued, with their results
    seen_by,            \* which path put each id into the known-device set first
    entities,           \* the RaptSensor entities async_setup_entry has added
    reading             \* the last state read from a sensor: native_value and available

clientVars == <<now, bearer_token, token_expires_at, last_request_time, lock_owner,
                lock_waiters, sleep_until, pc, op, exc, ret, log, auth_seq, expiry_from,
                token_response, last_sent>>

coordVars == <<data, last_update_success, devices, known_device_ids, discovery_callbacks,
               cpc, fetched, new_devices, cb_next, requested, outcome, cb_log, seen_by,
               requests>>

sensorVars == <<entities, reading>>

vars == <<clientVars, coordVars, sensorVars>>

(***************************************************************************)
(* Responses of the remote API                                             *)
(***************************************************************************)
\* Exceptions and messages (api.py).
NoExc           == "none"
ErrInvalidCreds == "RaptApiError: Authentication failed: Invalid username or API key"
ErrAuthHttp     == "RaptApiError: Authentication failed: HTTP <status>"
ErrAuthFormat   == "RaptApiError: Authentication failed: Invalid response format"
ErrNoToken      == "RaptApiError: No access token received from API"
ErrNetwork      == "RaptApiError: Network error"
ErrAfterReauth  == "RaptApiError: Request failed after re-auth"
ErrForbidden    == "RaptApiError: Access forbidden"
ErrNotFound     == "RaptApiError: API endpoint not found"
ErrServer       == "RaptApiError: Server error"
ErrRequest      == "RaptApiError: Request failed"
ErrInvalidJson  == "RaptApiError: Invalid JSON response from API"
ExcTimeout      == "asyncio.TimeoutError"
ExcTypeError    == "TypeError"

RaptApiErrors == {ErrInvalidCreds, ErrAuthHttp, ErrAuthFormat, ErrNoToken, ErrNetwork,
                  ErrAfterReauth, ErrForbidden, ErrNotFound, ErrServer, ErrRequest,
                  ErrInvalidJson}

\* What the token endpoint may answer to the POST of authenticate().
\*   status   : a non-200 status
\*   not_json : 200, response.json() raises ContentTypeError
\*   json     : 200 with a JSON object; access_token may be missing or null,
\*              expires_in may be missing, a number, or not a number
\*   client_error : the transport raises an aiohttp.ClientError
\*   timeout  : ClientTimeout(total=30) expires, asyncio.TimeoutError
AuthStatusResponses == [kind : {"status"}, status : {400, 401, 500}]
AuthJsonResponses ==
    [kind : {"json"}, has_token : BOOLEAN, null_token : BOOLEAN,
     expires : {"absent", "number", "not_a_number"}, expires_in : ExpiresInValues]
AuthOtherResponses == [kind : {"not_json", "client_error", "timeout"}]

\* What a data endpoint may answer to a GET.
\* response.text() of an error response, as a tag for its content
ErrorTexts == {1, 2}
DataStatusResponses ==
    [kind : {"status"}, status : {401, 403, 404, 418, 500, 503}, text : ErrorTexts]
DataOkResponses     == [kind : {"ok"}, body : {"list", "not_a_list"}]
DataOtherResponses  == [kind : {"not_json", "client_error", "timeout"}]

(***************************************************************************)
(* authenticate(), api.py 36-89                                            *)
(***************************************************************************)
\* a status test that takes only 400 for invalid credentials
AuthRejected_only_400(r) ==
    CASE r.kind = "status" /\ r.status = 400 -> ErrInvalidCreds
      [] r.kind = "status"                   -> ErrAuthHttp
      [] r.kind = "not_json"                 -> ErrAuthFormat
      [] r.kind = "client_error"             -> ErrNetwork
      [] r.kind = "timeout"                  -> ExcTimeout
      [] r.kind = "json" /\ ~r.has_token     -> ErrNoToken
      [] OTHER                               -> NoExc

\* api.py 56-77, 87-89: the exception authenticate() raises before storing anything
AuthRejected(r) ==
    CASE r.kind = "status" /\ r.status \in {400, 401} -> ErrInvalidCreds
      [] r.kind = "status"                            -> ErrAuthHttp
      [] r.kind = "not_json"                          -> ErrAuthFormat
      [] r.kind = "client_error"                      -> ErrNetwork
      [] r.kind = "timeout"                           -> ExcTimeout
      [] r.kind = "json" /\ ~r.has_token              -> ErrNoToken
      [] OTHER                                        -> NoExc

\* api.py 79: self._bearer_token = token_data["access_token"]
StoresToken(r) == AuthRejected(r) = NoExc

\* api.py 82-83: timedelta(seconds=expires_in_seconds) raises TypeError when
\* expires_in is present and not a number
StoresExpiry(r) == StoresToken(r) /\ r.expires # "not_a_number"

\* the exception authenticate() raises for response r
AuthException(r) ==
    IF ~StoresToken(r) THEN AuthRejected(r)
    ELSE IF ~StoresExpiry(r) THEN ExcTypeError
    ELSE NoExc

\* a lifetime of one hour taken when the response names none
ExpiresIn_hour(r) == IF r.expires = "absent" THEN 3600 ELSE r.expires_in

\* api.py 82: expires_in if provided, otherwise 45 minutes
ExpiresIn(r) == IF r.expires = "absent" THEN DEFAULT_EXPIRES_IN ELSE r.expires_in

\* the access_token of a token response: a fresh token, or JSON null
AccessToken(r) == IF r.null_token THEN None ELSE auth_seq + 1

TokenAfter(r)  == IF StoresToken(r) THEN AccessToken(r) ELSE bearer_token
ExpiryAfter(r) == IF StoresExpiry(r) THEN now + ExpiresIn(r) ELSE token_expires_at

\* The state written by authenticate() on response r.
AuthenticateWrites(t, r) ==
    /\ bearer_token' = TokenAfter(r)
    /\ token_expires_at' = ExpiryAfter(r)
    /\ auth_seq' = IF StoresToken(r) THEN auth_seq + 1 ELSE auth_seq
    /\ expiry_from' = IF StoresExpiry(r) THEN auth_seq + 1 ELSE expiry_from
    /\ token_response' = [token_response EXCEPT ![t] = r]

\* Token responses the model lets the server give: fresh tokens are numbered
\* up to MaxAuth.
AuthResponses ==
    {r \in AuthJsonResponses :
        /\ r.has_token => auth_seq < MaxAuth
        /\ ~r.has_token => (~r.null_token /\ r.expires = "absent")}
      \cup AuthStatusResponses \cup AuthOtherResponses

\* a token still used at the very instant of its expiry
NeedsAuth_late ==
    \/ bearer_token = None
    \/ token_expires_at = None
    \/ now > token_expires_at

\* api.py 93-97: the condition of _ensure_authenticated
NeedsAuth ==
    \/ bearer_token = None
    \/ token_expires_at = None
    \/ now >= token_expires_at


(***************************************************************************)
(* _rate_limited_request(), api.py 101-161                                 *)
(***************************************************************************)
\* an entry of a caller's log: what happened, and the value it concerns
Ev(e, v) == [e |-> e, v |-> v]

\* a gate that lets a caller in without looking at the lock
LockFree_unchecked == TRUE

\* api.py 103: the lock is taken at once when free with nobody queued before
LockFree == lock_owner = NoTask /\ lock_waiters = <<>>

\* sleeping for the time already elapsed instead of the rest of the window
SleepTime_elapsed == now - last_request_time

\* api.py 105-107: sleep_time = 15 - time_since_last.total_seconds()
SleepTime == RATE_LIMIT_SECONDS - (now - last_request_time)

\* a spacing check that also holds back a caller arriving exactly 15 seconds
\* after the last request
TooEarly_inclusive ==
    last_request_time # None /\ now - last_request_time <= RATE_LIMIT_SECONDS

\* api.py 104-106: the spacing check
TooEarly == last_request_time # None /\ now - last_request_time < RATE_LIMIT_SECONDS

\* a header built once from the token held before the authentication
AuthorizationHeader_stale(token) == bearer_token

\* api.py 116, 129: the Authorization header carries self._bearer_token
AuthorizationHeader(token) == token

\* a request start stamped only when the request is sent, after the
\* authentication
Proceed_stamp_on_send(t, lg, needs, token) ==
    /\ last_request_time' = IF needs THEN last_request_time ELSE now
    /\ IF needs
       THEN /\ pc' = [pc EXCEPT ![t] = "auth"]
            /\ log' = [log EXCEPT ![t] = lg \o <<Ev("auth", None)>>]
            /\ UNCHANGED last_sent
       ELSE /\ pc' = [pc EXCEPT ![t] = "request"]
            /\ last_sent' = now
            /\ log' = [log EXCEPT ![t] =
                  lg \o <<Ev("send", AuthorizationHeader(token))>>]

\* api.py 111-124: stamp the request start, ensure authentication, send.
\* A needed authentication suspends the caller on the token POST.  needs and
\* token are the condition of _ensure_authenticated and the stored token as
\* the caller finds them when it gets here.
Proceed(t, lg, needs, token) ==
    /\ last_request_time' = now
    /\ IF needs
       THEN /\ pc' = [pc EXCEPT ![t] = "auth"]
            /\ log' = [log EXCEPT ![t] = lg \o <<Ev("auth", None)>>]
            /\ UNCHANGED last_sent
       ELSE /\ pc' = [pc EXCEPT ![t] = "request"]
            /\ last_sent' = now
            /\ log' = [log EXCEPT ![t] =
                  lg \o <<Ev("send", AuthorizationHeader(token))>>]

\* api.py 104-111: inside the gate; sleep out the rest of the window or go on
GateCheck(t, lg, needs, token) ==
    IF TooEarly
    THEN /\ sleep_until' = now + SleepTime
         /\ pc' = [pc EXCEPT ![t] = "sleep"]
         /\ log' = [log EXCEPT ![t] = lg]
         /\ UNCHANGED <<last_request_time, last_sent>>
    ELSE /\ Proceed(t, lg, needs, token)
         /\ UNCHANGED sleep_until

\* api.py 103: async with self._rate_limit_lock
EnterRequest(t, lg, needs, token) ==
    IF LockFree
    THEN /\ lock_owner' = t
         /\ UNCHANGED lock_waiters
         /\ GateCheck(t, lg, needs, token)
    ELSE /\ lock_waiters' = Append(lock_waiters, t)
         /\ pc' = [pc EXCEPT ![t] = "lock"]
         /\ log' = [log EXCEPT ![t] = lg]
         /\ UNCHANGED <<lock_owner, last_request_time, last_sent, sleep_until>>

\* leaving the async with block releases the lock
Release(t) == lock_owner' = IF lock_owner = t THEN NoTask ELSE lock_owner

\* api.py 171-175 (and 195-199, 219-223, 241-245): a list is returned as it is,
\* anything else becomes an empty list
FetchResult(body) == IF body = "list" THEN "list" ELSE "empty_list"

\* an exception that leaves validate_connection like any other operation
Raised_propagates(o, e) == e

\* api.py 273-282: validate_connection swallows every exception into False
Raised(o, e) == IF o = "validate_connection" THEN NoExc ELSE e
Returned(o, v) == IF o = "validate_connection" THEN "True" ELSE v

\* an exception that leaves the gate with the lock still held
EndRaiseWith_keeps_lock(t, e, txt, lg) ==
    /\ pc' = [pc EXCEPT ![t] = "done"]
    /\ exc' = [exc EXCEPT ![t] = Raised(op[t], e)]
    /\ ret' = [ret EXCEPT ![t] = IF op[t] = "validate_connection" THEN "False" ELSE "none"]
    /\ log' = [log EXCEPT ![t] = lg \o <<Ev(e, txt)>>]
    /\ UNCHANGED lock_owner

\* the operation of caller t ends by raising e, whose message carries txt
EndRaiseWith(t, e, txt, lg) ==
    /\ pc' = [pc EXCEPT ![t] = "done"]
    /\ exc' = [exc EXCEPT ![t] = Raised(op[t], e)]
    /\ ret' = [ret EXCEPT ![t] = IF op[t] = "validate_connection" THEN "False" ELSE "none"]
    /\ log' = [log EXCEPT ![t] = lg \o <<Ev(e, txt)>>]
    /\ Release(t)

\* the operation of caller t ends by raising e
EndRaise(t, e, lg) == EndRaiseWith(t, e, None, lg)

\* the operation of caller t ends by returning v
EndReturn(t, v, lg) ==
    /\ pc' = [pc EXCEPT ![t] = "done"]
    /\ exc' = [exc EXCEPT ![t] = NoExc]
    /\ ret' = [ret EXCEPT ![t] = Returned(op[t], v)]
    /\ log' = [log EXCEPT ![t] = lg \o <<Ev("return", None)>>]
    /\ Release(t)

\* api.py 143-151: the response body an error message of the first response carries
ErrorText(r) == IF r.kind = "status" THEN r.text ELSE None

\* the log entries for a first response that is an error status: the status
\* and the body the server sent
AnsweredEvents(r) ==
    IF r.kind = "status" THEN <<Ev("status", r.status), Ev("body", r.text)>> ELSE <<>>

\* a status test that takes only 500 itself for a server error
FirstException_only_500(r) ==
    CASE r.kind = "status" /\ r.status = 403  -> ErrForbidden
      [] r.kind = "status" /\ r.status = 404  -> ErrNotFound
      [] r.kind = "status" /\ r.status = 500  -> ErrServer
      [] r.kind = "status"                    -> ErrRequest
      [] r.kind = "not_json"                  -> ErrInvalidJson
      [] r.kind = "client_error"              -> ErrNetwork
      [] r.kind = "timeout"                   -> ExcTimeout
      [] OTHER                                -> NoExc

\* api.py 142-157, 159-161: the outcome of the first response when it is not a 401
FirstException(r) ==
    CASE r.kind = "status" /\ r.status = 403  -> ErrForbidden
      [] r.kind = "status" /\ r.status = 404  -> ErrNotFound
      [] r.kind = "status" /\ r.status >= 500 -> ErrServer
      [] r.kind = "status"                    -> ErrRequest
      [] r.kind = "not_json"                  -> ErrInvalidJson
      [] r.kind = "client_error"              -> ErrNetwork
      [] r.kind = "timeout"                   -> ExcTimeout
      [] OTHER                                -> NoExc

\* api.py 131-140, 159-161: the outcome of the retried request
RetryException(r) ==
    CASE r.kind = "status"       -> ErrAfterReauth
      [] r.kind = "not_json"     -> ErrInvalidJson
      [] r.kind = "client_error" -> ErrNetwork
      [] r.kind = "timeout"      -> ExcTimeout
      [] OTHER                   -> NoExc

\* a retry taken for a refused request as well as for an unauthorized one
Unauthorized_or_forbidden(r) == r.kind = "status" /\ r.status \in {401, 403}

\* api.py 125: if response.status == 401
Unauthorized(r) == r.kind = "status" /\ r.status = 401

DataResponses == DataStatusResponses \cup DataOkResponses \cup DataOtherResponses

\* the log entries of authenticate() storing what response r carries: the
\* token stored, and the expires_in field (None when absent) the stored expiry
\* was computed from
StoredEvents(r) ==
    (IF StoresToken(r) THEN <<Ev("stored", TokenAfter(r))>> ELSE <<>>)
      \o (IF StoresExpiry(r)
          THEN <<Ev("expires_in", IF r.expires = "absent" THEN None ELSE r.expires_in)>>
          ELSE <<>>)


(***************************************************************************)
(* The client's steps: one per run of a caller between two awaits          *)
(***************************************************************************)
tokenVars == <<bearer_token, token_expires_at, auth_seq, expiry_from, token_response>>

\* no token response handled by the running call
NoResponse == [kind |-> "none"]

TypeOK ==
    /\ now \in 0..MaxTime
    /\ bearer_token \in {None} \cup (1..MaxAuth)
    /\ auth_seq \in 0..MaxAuth
    /\ lock_owner \in Callers \cup {NoTask}
    /\ pc \in [Callers -> {"idle", "lock", "sleep", "auth", "request", "reauth",
                           "retry", "auth_direct", "done"}]

ClientInit ==
    /\ now = 0
    /\ bearer_token = None          \* api.py 31
    /\ token_expires_at = None      \* api.py 32
    /\ last_request_time = None     \* api.py 34
    /\ lock_owner = NoTask          \* api.py 33
    /\ lock_waiters = <<>>
    /\ sleep_until = None
    /\ pc = [t \in Callers |-> "idle"]
    /\ op = [t \in Callers |-> "none"]
    /\ exc = [t \in Callers |-> NoExc]
    /\ ret = [t \in Callers |-> "none"]
    /\ log = [t \in Callers |-> <<>>]
    /\ auth_seq = 0
    /\ expiry_from = 0
    /\ token_response = [t \in Callers |-> NoResponse]
    /\ last_sent = None

\* The wall clock advances.
Tick ==
    /\ \E d \in TickSteps : now + d <= MaxTime /\ now' = now + d
    /\ UNCHANGED <<tokenVars, last_request_time, last_sent, lock_owner, lock_waiters, sleep_until,
                   pc, op, exc, ret, log>>

\* api.py 163-168 (187-192, 211-216, 233-238): a fetch calls _rate_limited_request
CallFetch(t) ==
    /\ pc[t] = "idle"
    /\ "fetch" \in OpsOf(t)
    /\ op' = [op EXCEPT ![t] = "fetch"]
    /\ EnterRequest(t, <<>>, NeedsAuth, bearer_token)
    /\ UNCHANGED <<now, tokenVars, exc, ret>>

\* api.py 36-55, 273-276: authenticate() called directly, or by validate_connection
CallAuthenticate(t) ==
    /\ pc[t] = "idle"
    /\ \E o \in OpsOf(t) \cap {"authenticate", "validate_connection"} :
          op' = [op EXCEPT ![t] = o]
    /\ pc' = [pc EXCEPT ![t] = "auth_direct"]
    /\ log' = [log EXCEPT ![t] = <<Ev("auth", None)>>]
    /\ UNCHANGED <<now, tokenVars, last_request_time, last_sent, lock_owner, lock_waiters,
                   sleep_until, exc, ret>>

\* api.py 103: a queued caller gets the lock once it is released
Acquire(t) ==
    /\ pc[t] = "lock"
    /\ lock_owner = NoTask
    /\ lock_waiters # <<>> /\ Head(lock_waiters) = t
    /\ lock_owner' = t
    /\ lock_waiters' = Tail(lock_waiters)
    /\ GateCheck(t, log[t], NeedsAuth, bearer_token)
    /\ UNCHANGED <<now, tokenVars, op, exc, ret>>

\* api.py 109-111: asyncio.sleep returns no earlier than asked
WakeUp(t) ==
    /\ pc[t] = "sleep"
    /\ now >= sleep_until
    /\ sleep_until' = None
    /\ Proceed(t, log[t], NeedsAuth, bearer_token)
    /\ UNCHANGED <<now, tokenVars, lock_owner, lock_waiters, op, exc, ret>>

\* api.py 99, 113-124: the token POST of _ensure_authenticated is answered
AuthReturn(t) ==
    /\ pc[t] = "auth"
    /\ \E r \in AuthResponses :
        /\ AuthenticateWrites(t, r)
        /\ IF AuthException(r) # NoExc
           THEN /\ EndRaise(t, AuthException(r), log[t] \o StoredEvents(r))
                /\ UNCHANGED last_sent
           ELSE /\ pc' = [pc EXCEPT ![t] = "request"]
                /\ last_sent' = now
                /\ log' = [log EXCEPT ![t] = @ \o StoredEvents(r)
                             \o <<Ev("send", AuthorizationHeader(TokenAfter(r)))>>]
                /\ UNCHANGED <<lock_owner, exc, ret>>
    /\ UNCHANGED <<now, last_request_time, lock_waiters, sleep_until, op>>

\* api.py 124-129, 142-161: the first data request is answered
FirstResponse(t) ==
    /\ pc[t] = "request"
    /\ \E r \in DataResponses :
        IF Unauthorized(r)
        THEN /\ pc' = [pc EXCEPT ![t] = "reauth"]
             /\ log' = [log EXCEPT ![t] = @ \o <<Ev("status", r.status), Ev("auth", None)>>]
             /\ UNCHANGED <<lock_owner, exc, ret>>
        ELSE IF FirstException(r) # NoExc
        THEN EndRaiseWith(t, FirstException(r), ErrorText(r), log[t] \o AnsweredEvents(r))
        ELSE EndReturn(t, FetchResult(r.body), log[t] \o <<Ev("status", 200)>>)
    /\ UNCHANGED <<now, tokenVars, last_request_time, last_sent, lock_waiters, sleep_until, op>>

\* api.py 128-131: the token POST after a 401 is answered
ReauthReturn(t) ==
    /\ pc[t] = "reauth"
    /\ \E r \in AuthResponses :
        /\ AuthenticateWrites(t, r)
        /\ IF AuthException(r) # NoExc
           THEN /\ EndRaise(t, AuthException(r), log[t] \o StoredEvents(r))
                /\ UNCHANGED last_sent
           ELSE /\ pc' = [pc EXCEPT ![t] = "retry"]
                /\ last_sent' = now
                /\ log' = [log EXCEPT ![t] = @ \o StoredEvents(r)
                             \o <<Ev("send", AuthorizationHeader(TokenAfter(r)))>>]
                /\ UNCHANGED <<lock_owner, exc, ret>>
    /\ UNCHANGED <<now, last_request_time, lock_waiters, sleep_until, op>>

\* api.py 131-140: the retried data request is answered
RetryResponse(t) ==
    /\ pc[t] = "retry"
    /\ \E r \in DataResponses :
        IF RetryException(r) # NoExc
        THEN EndRaise(t, RetryException(r),
                      log[t] \o (IF r.kind = "status" THEN <<Ev("status", r.status)>> ELSE <<>>))
        ELSE EndReturn(t, FetchResult(r.body), log[t] \o <<Ev("status", 200)>>)
    /\ UNCHANGED <<now, tokenVars, last_request_time, last_sent, lock_waiters, sleep_until, op>>

\* api.py 36-89, 276-278: the token POST of a direct authenticate() is answered;
\* validate_connection goes on to its fetch with the token just stored
DirectAuthReturn(t) ==
    /\ pc[t] = "auth_direct"
    /\ UNCHANGED <<now, op>>
    /\ \E r \in AuthResponses :
        /\ AuthenticateWrites(t, r)
        /\ IF AuthException(r) # NoExc
           THEN /\ EndRaise(t, AuthException(r), log[t] \o StoredEvents(r))
                /\ UNCHANGED <<last_request_time, last_sent, lock_waiters, sleep_until>>
           ELSE IF op[t] = "authenticate"
           THEN /\ EndReturn(t, "None", log[t] \o StoredEvents(r))
                /\ UNCHANGED <<last_request_time, last_sent, lock_waiters, sleep_until>>
           ELSE /\ EnterRequest(t, log[t] \o StoredEvents(r), NeedsAuth', bearer_token')
                /\ UNCHANGED <<exc, ret>>

\* the caller has taken the result of its operation
Done(t) ==
    /\ pc[t] = "done"
    /\ pc' = [pc EXCEPT ![t] = "idle"]
    /\ op' = [op EXCEPT ![t] = "none"]
    /\ exc' = [exc EXCEPT ![t] = NoExc]
    /\ ret' = [ret EXCEPT ![t] = "none"]
    /\ log' = [log EXCEPT ![t] = <<>>]
    /\ token_response' = [token_response EXCEPT ![t] = NoResponse]
    /\ UNCHANGED <<now, bearer_token, token_expires_at, auth_seq, expiry_from,
                   last_request_time, last_sent, lock_owner, lock_waiters, sleep_until>>

\* A finished operation hands its result to its caller before the loop runs
\* anything else.
NoneDone == \A t \in Callers : pc[t] # "done"

ClientNext ==
    \/ NoneDone /\ Tick
    \/ \E t \in Callers : NoneDone /\ CallFetch(t)
    \/ \E t \in Callers : NoneDone /\ CallAuthenticate(t)
    \/ \E t \in Callers : NoneDone /\ Acquire(t)
    \/ \E t \in Callers : NoneDone /\ WakeUp(t)
    \/ \E t \in Callers : NoneDone /\ AuthReturn(t)
    \/ \E t \in Callers : NoneDone /\ FirstResponse(t)
    \/ \E t \in Callers : NoneDone /\ ReauthReturn(t)
    \/ \E t \in Callers : NoneDone /\ RetryResponse(t)
    \/ \E t \in Callers : NoneDone /\ DirectAuthReturn(t)
    \/ \E t \in Callers : Done(t)

(***************************************************************************)
(* Device records and the bodies of the four data endpoints                *)
(***************************************************************************)
\* device.get("id") of a record without the key
NoId == "<None>"
\* Device records: two records share the id "A", one has an empty id, one
\* has no id at all.
DevA     == [has_id |-> TRUE,  id |-> "A", name |-> "a-controller"]
DevA2    == [has_id |-> TRUE,  id |-> "A", name |-> "a-hydrometer"]
DevB     == [has_id |-> TRUE,  id |-> "B", name |-> "b"]
DevEmpty == [has_id |-> TRUE,  id |-> "",  name |-> "empty-id"]
DevNoId  == [has_id |-> FALSE, id |-> "",  name |-> "no-id"]

\* a 200 response body: a JSON list of records, or JSON that is not a list
ListBody(items) == [list |-> TRUE, items |-> items]
NotAList        == [list |-> FALSE, items |-> <<>>]

\* the categories fetched in the alphabetical order of their names
Categories_by_name == <<"brewzillas", "controllers", "fermentation_chambers", "hydrometers">>

\* api.py 257-260, 262-267: the categories in the order get_all_devices fetches them
Categories == <<"controllers", "hydrometers", "fermentation_chambers", "brewzillas">>

\* The bodies the server may give for each category.
Bodies(k) ==
    CASE k = 1 -> {ListBody(<<DevA>>), NotAList}
      [] k = 2 -> {ListBody(<<>>), ListBody(<<DevA2, DevB>>)}
      [] k = 3 -> {ListBody(<<DevNoId, DevEmpty>>)}
      [] k = 4 -> {ListBody(<<>>), ListBody(<<DevB>>)}

\* The exceptions a fetch may raise: those of _rate_limited_request.
FetchExceptions == {ErrNetwork, ExcTimeout}

\* a non-list body handed on as a list of the one record it is
GetList_wraps(body) == IF body.list THEN body.items ELSE <<DevNoId>>

\* api.py 171-175, 195-199, 219-223, 241-245
GetList(body) == IF body.list THEN body.items ELSE <<>>

(***************************************************************************)
(* The coordinator, coordinator.py                                         *)
(***************************************************************************)
\* The coordinator's coroutines: the scheduled refresh, and two calls of the
\* discovery service.
CoordTasks == {"refresh", "discover", "discover2"}

\* coordinator.py 85, 107: device.get("id")
DeviceId(d) == IF d.has_id THEN d.id ELSE NoId
\* a test for a missing id only, which lets the empty id through
Truthy_not_none(id) == id # NoId

\* coordinator.py 86, 108: if device_id:
Truthy(id) == id # NoId /\ id # ""

\* the ids the device records carry
DeviceIds == {"A", "B", "", NoId}

\* the path that first recorded each id, after path t has recorded the set known
FirstSeen(t, known) ==
    [id \in DeviceIds |-> IF id \in known /\ seen_by[id] = "nobody"
                          THEN t ELSE seen_by[id]]

\* a merged list that starts with the hydrometers
Merged_hydrometers_first(f) == f[2] \o f[1] \o f[3] \o f[4]

\* coordinator.py 43, 84: controllers + hydrometers + fermentation_chambers + brewzillas
Merged(f) == f[1] \o f[2] \o f[3] \o f[4]

\* a known set rebuilt from the ids of the current result alone
TrackKnown_replaces(known, devs) ==
    {DeviceId(devs[i]) : i \in {j \in 1..Len(devs) : Truthy(DeviceId(devs[j]))}}

\* a tracking loop that ends after the first record
TrackKnown_first_only(known, devs) ==
    IF devs # <<>> /\ Truthy(DeviceId(Head(devs)))
    THEN known \cup {DeviceId(Head(devs))}
    ELSE known

RECURSIVE TrackKnown(_, _)
\* coordinator.py 104-109: _track_known_devices
TrackKnown(known, devs) ==
    IF devs = <<>> THEN known
    ELSE LET id == DeviceId(Head(devs))
         IN  TrackKnown(IF Truthy(id) THEN known \cup {id} ELSE known, Tail(devs))

\* new devices taken as those not known before the loop, so that an id
\* carried by two records is reported twice
DiscoverLoop_stale(devs, known, new) ==
    [known |-> TrackKnown(known, devs),
     new   |-> new \o SelectSeq(devs, LAMBDA d : Truthy(DeviceId(d)) /\ DeviceId(d) \notin known)]

RECURSIVE DiscoverLoop(_, _, _)
\* coordinator.py 84-90: the loop of async_discover_devices
DiscoverLoop(devs, known, new) ==
    IF devs = <<>> THEN [known |-> known, new |-> new]
    ELSE LET d  == Head(devs)
             id == DeviceId(d)
         IN  IF Truthy(id) /\ id \notin known
             THEN DiscoverLoop(Tail(devs), known \cup {id}, Append(new, d))
             ELSE DiscoverLoop(Tail(devs), known, new)

\* coordinator.py 44-51: the dict _async_update_data returns
Snapshot(f) ==
    [controllers |-> f[1], hydrometers |-> f[2], fermentation_chambers |-> f[3],
     brewzillas |-> f[4], devices |-> Merged(f), last_updated |-> last_update_success]

UpdateFailedApi   == "UpdateFailed: Error communicating with RAPT API"
UpdateFailedOther == "UpdateFailed: Unexpected error"

\* a refresh that wraps a RaptApiError only and lets anything else through
UpdateFailed_api_only(e) == IF e \in RaptApiErrors THEN UpdateFailedApi ELSE e

\* coordinator.py 58-61
UpdateFailed(e) == IF e \in RaptApiErrors THEN UpdateFailedApi ELSE UpdateFailedOther

CoordInit ==
    /\ data = <<>>
    /\ last_update_success = TRUE
    /\ devices = <<>>                 \* coordinator.py 29
    /\ known_device_ids = {}          \* coordinator.py 30
    /\ discovery_callbacks = <<>>     \* coordinator.py 31
    /\ cpc = [t \in CoordTasks |-> "idle"]
    /\ fetched = [t \in CoordTasks |-> <<>>]
    /\ new_devices = [t \in CoordTasks |-> <<>>]
    /\ cb_next = [t \in CoordTasks |-> 0]
    /\ requested = [t \in CoordTasks |-> 0]
    /\ outcome = [t \in CoordTasks |-> "none"]
    /\ cb_log = [t \in CoordTasks |-> <<>>]
    /\ seen_by = [id \in DeviceIds |-> "nobody"]
    /\ requests = [t \in CoordTasks |-> <<>>]

\* The callbacks the platforms register, in the order they register them.
Callbacks == <<"cb1", "cb2">>

\* coordinator.py 68-70
RegisterCallback(cb) ==
    /\ Len(discovery_callbacks) < Len(Callbacks)
    /\ cb = Callbacks[Len(discovery_callbacks) + 1]
    /\ discovery_callbacks' = Append(discovery_callbacks, cb)
    /\ UNCHANGED <<data, last_update_success, devices, known_device_ids, cpc, fetched,
                   new_devices, cb_next, requested, outcome, cb_log, seen_by, requests>>

\* coordinator.py 33-36: the scheduled refresh starts and awaits get_all_devices
StartRefresh(t) ==
    /\ t = "refresh"
    /\ cpc[t] = "idle"
    /\ cpc' = [cpc EXCEPT ![t] = "fetching"]
    /\ UNCHANGED <<data, last_update_success, devices, known_device_ids,
                   discovery_callbacks, fetched, new_devices, cb_next, requested,
                   outcome, cb_log, seen_by, requests>>

\* coordinator.py 72-75: a manual discovery starts and awaits get_all_devices
StartDiscover(t) ==
    /\ t # "refresh"
    /\ cpc[t] = "idle"
    /\ cpc' = [cpc EXCEPT ![t] = "fetching"]
    /\ UNCHANGED <<data, last_update_success, devices, known_device_ids,
                   discovery_callbacks, fetched, new_devices, cb_next, requested,
                   outcome, cb_log, seen_by, requests>>

\* a refresh that also reports the devices it sees for the first time
RefreshCommit_notifies(t, f) ==
    LET r == DiscoverLoop(Merged(f), known_device_ids, <<>>)
    IN  /\ known_device_ids' = r.known
        /\ devices' = Merged(f)
        /\ data' = <<Snapshot(f)>>
        /\ last_update_success' = TRUE
        /\ fetched' = [fetched EXCEPT ![t] = f]
        /\ cpc' = [cpc EXCEPT ![t] = "done"]
        /\ outcome' = [outcome EXCEPT ![t] = "ok"]
        /\ seen_by' = FirstSeen(t, r.known)
        /\ cb_log' = [cb_log EXCEPT ![t] =
               IF r.new # <<>> /\ discovery_callbacks # <<>>
               THEN <<[cb |-> discovery_callbacks[1], devices |-> r.new]>> ELSE @]
        /\ UNCHANGED <<discovery_callbacks, new_devices, cb_next, requested>>

\* a refresh that leaves the known-device set alone
RefreshCommit_untracked(t, f) ==
    /\ known_device_ids' = known_device_ids
    /\ devices' = Merged(f)
    /\ data' = <<Snapshot(f)>>
    /\ last_update_success' = TRUE
    /\ fetched' = [fetched EXCEPT ![t] = f]
    /\ cpc' = [cpc EXCEPT ![t] = "done"]
    /\ outcome' = [outcome EXCEPT ![t] = "ok"]
    /\ seen_by' = FirstSeen(t, TrackKnown(known_device_ids, Merged(f)))
    /\ UNCHANGED <<discovery_callbacks, new_devices, cb_next, requested, cb_log>>

\* coordinator.py 42-56 and the base class: the refresh tracks the ids, replaces
\* _devices and returns the dict, which becomes coordinator.data
RefreshCommit(t, f) ==
    /\ known_device_ids' = TrackKnown(known_device_ids, Merged(f))
    /\ devices' = Merged(f)
    /\ data' = <<Snapshot(f)>>
    /\ last_update_success' = TRUE
    /\ fetched' = [fetched EXCEPT ![t] = f]
    /\ cpc' = [cpc EXCEPT ![t] = "done"]
    /\ outcome' = [outcome EXCEPT ![t] = "ok"]
    /\ seen_by' = FirstSeen(t, TrackKnown(known_device_ids, Merged(f)))
    /\ UNCHANGED <<discovery_callbacks, new_devices, cb_next, requested, cb_log>>

\* the callbacks taken from the end of the list
InvokeCallback_reversed(t, i, new) ==
    /\ cpc' = [cpc EXCEPT ![t] = "callback"]
    /\ cb_next' = [cb_next EXCEPT ![t] = i]
    /\ cb_log' = [cb_log EXCEPT ![t] =
          Append(@, [cb |-> discovery_callbacks[Len(discovery_callbacks) - i + 1],
                     devices |-> new])]
    /\ UNCHANGED <<requested, outcome>>

\* coordinator.py 95: await callback(new_devices), for the i-th callback
InvokeCallback(t, i, new) ==
    /\ cpc' = [cpc EXCEPT ![t] = "callback"]
    /\ cb_next' = [cb_next EXCEPT ![t] = i]
    /\ cb_log' = [cb_log EXCEPT ![t] = Append(@, [cb |-> discovery_callbacks[i], devices |-> new])]
    /\ UNCHANGED <<requested, outcome>>

\* coordinator.py 99: await self.async_request_refresh()
RequestRefresh(t) ==
    /\ cpc' = [cpc EXCEPT ![t] = "requesting"]
    /\ requested' = [requested EXCEPT ![t] = @ + 1]
    /\ UNCHANGED <<cb_next, cb_log, outcome>>

\* a discovery that reports the new devices without recording their ids
DiscoverDiff_untracked(t, f) ==
    LET r == DiscoverLoop(Merged(f), known_device_ids, <<>>)
    IN  /\ known_device_ids' = known_device_ids
        /\ seen_by' = FirstSeen(t, r.known)
        /\ new_devices' = [new_devices EXCEPT ![t] = r.new]
        /\ fetched' = [fetched EXCEPT ![t] = f]
        /\ IF r.new # <<>> /\ discovery_callbacks # <<>>
           THEN InvokeCallback(t, 1, r.new)
           ELSE RequestRefresh(t)
        /\ UNCHANGED <<data, last_update_success, devices, discovery_callbacks>>

\* coordinator.py 81-99: the discovery finds the new devices, records their ids
\* and calls the first callback, or requests the refresh at once
DiscoverDiff(t, f) ==
    LET r == DiscoverLoop(Merged(f), known_device_ids, <<>>)
    IN  /\ known_device_ids' = r.known
        /\ seen_by' = FirstSeen(t, r.known)
        /\ new_devices' = [new_devices EXCEPT ![t] = r.new]
        /\ fetched' = [fetched EXCEPT ![t] = f]
        /\ IF r.new # <<>> /\ discovery_callbacks # <<>>
           THEN InvokeCallback(t, 1, r.new)
           ELSE RequestRefresh(t)
        /\ UNCHANGED <<data, last_update_success, devices, discovery_callbacks>>

\* api.py 257-260: the fetch a running get_all_devices is awaiting, by its
\* place among the four
NextFetch(t) == Len(fetched[t]) + 1

\* a fetch of category k answered 200 with a JSON body, or failing with e
Answered(k, body) == [category |-> Categories[k], raised |-> NoExc, body |-> body]
Failing(k, e)     == [category |-> Categories[k], raised |-> e, body |-> NotAList]

\* api.py 255-267: one fetch of get_all_devices returns; after the fourth the
\* caller goes on with the four lists
FetchReturn(t) ==
    /\ cpc[t] = "fetching"
    /\ \E body \in Bodies(NextFetch(t)) :
        LET f == Append(fetched[t], GetList(body))
        IN  /\ requests' = [requests EXCEPT ![t] = Append(@, Answered(NextFetch(t), body))]
            /\ IF Len(f) < Len(Categories)
               THEN /\ fetched' = [fetched EXCEPT ![t] = f]
                    /\ UNCHANGED <<data, last_update_success, devices, known_device_ids,
                                   discovery_callbacks, cpc, new_devices, cb_next, requested,
                                   outcome, cb_log, seen_by>>
               ELSE IF t = "refresh" THEN RefreshCommit(t, f) ELSE DiscoverDiff(t, f)

\* a failed refresh that drops the merged device list
FetchRaise_clears(t) ==
    /\ cpc[t] = "fetching"
    /\ \E e \in FetchExceptions :
        outcome' = [outcome EXCEPT ![t] = IF t = "refresh" THEN UpdateFailed(e)
                                          ELSE "logged"]
    /\ last_update_success' = IF t = "refresh" THEN FALSE ELSE last_update_success
    /\ cpc' = [cpc EXCEPT ![t] = "done"]
    /\ devices' = IF t = "refresh" THEN <<>> ELSE devices
    /\ UNCHANGED <<data, known_device_ids, discovery_callbacks, fetched,
                   new_devices, cb_next, requested, cb_log, seen_by, requests>>

\* coordinator.py 58-61, 101-102: a fetch of get_all_devices raises; the refresh
\* fails with UpdateFailed, the discovery logs the error
FetchRaise(t) ==
    /\ cpc[t] = "fetching"
    /\ \E e \in FetchExceptions :
        /\ outcome' = [outcome EXCEPT ![t] = IF t = "refresh" THEN UpdateFailed(e)
                                             ELSE "logged"]
        /\ requests' = [requests EXCEPT ![t] = Append(@, Failing(NextFetch(t), e))]
    /\ last_update_success' = IF t = "refresh" THEN FALSE ELSE last_update_success
    /\ cpc' = [cpc EXCEPT ![t] = "done"]
    /\ UNCHANGED <<data, devices, known_device_ids, discovery_callbacks, fetched,
                   new_devices, cb_next, requested, cb_log, seen_by>>

\* coordinator.py 94-99: the awaited callback returns; the next one is called,
\* or the refresh is requested after the last
CallbackReturn(t) ==
    /\ cpc[t] = "callback"
    /\ IF cb_next[t] < Len(discovery_callbacks)
       THEN InvokeCallback(t, cb_next[t] + 1, new_devices[t])
       ELSE RequestRefresh(t)
    /\ UNCHANGED <<data, last_update_success, devices, known_device_ids,
                   discovery_callbacks, fetched, new_devices, seen_by, requests>>

\* a callback's exception that leaves async_discover_devices
CallbackRaise_propagates(t) ==
    /\ cpc[t] = "callback"
    /\ cpc' = [cpc EXCEPT ![t] = "done"]
    /\ outcome' = [outcome EXCEPT ![t] = "raised"]
    /\ UNCHANGED <<data, last_update_success, devices, known_device_ids,
                   discovery_callbacks, fetched, new_devices, cb_next, requested, cb_log,
                   seen_by, requests>>

\* coordinator.py 101-102: the awaited callback raises; the error is logged
CallbackRaise(t) ==
    /\ cpc[t] = "callback"
    /\ cpc' = [cpc EXCEPT ![t] = "done"]
    /\ outcome' = [outcome EXCEPT ![t] = "logged"]
    /\ UNCHANGED <<data, last_update_success, devices, known_device_ids,
                   discovery_callbacks, fetched, new_devices, cb_next, requested, cb_log,
                   seen_by, requests>>

\* coordinator.py 99-100: the requested refresh is done and the discovery returns
RefreshRequestReturn(t) ==
    /\ cpc[t] = "requesting"
    /\ cpc' = [cpc EXCEPT ![t] = "done"]
    /\ outcome' = [outcome EXCEPT ![t] = "ok"]
    /\ UNCHANGED <<data, last_update_success, devices, known_device_ids,
                   discovery_callbacks, fetched, new_devices, cb_next, requested, cb_log,
                   seen_by, requests>>

\* coordinator.py 99-102: the requested refresh raises; the error is logged
RefreshRequestRaise(t) ==
    /\ cpc[t] = "requesting"
    /\ cpc' = [cpc EXCEPT ![t] = "done"]
    /\ outcome' = [outcome EXCEPT ![t] = "logged"]
    /\ UNCHANGED <<data, last_update_success, devices, known_device_ids,
                   discovery_callbacks, fetched, new_devices, cb_next, requested, cb_log,
                   seen_by, requests>>

\* the run of a task is over
CoordDone(t) ==
    /\ cpc[t] = "done"
    /\ cpc' = [cpc EXCEPT ![t] = "idle"]
    /\ fetched' = [fetched EXCEPT ![t] = <<>>]
    /\ new_devices' = [new_devices EXCEPT ![t] = <<>>]
    /\ cb_next' = [cb_next EXCEPT ![t] = 0]
    /\ requested' = [requested EXCEPT ![t] = 0]
    /\ outcome' = [outcome EXCEPT ![t] = "none"]
    /\ cb_log' = [cb_log EXCEPT ![t] = <<>>]
    /\ requests' = [requests EXCEPT ![t] = <<>>]
    /\ UNCHANGED <<data, last_update_success, devices, known_device_ids,
                   discovery_callbacks, seen_by>>

\* The result of a finished run is taken before the loop runs anything else.
NoRunDone == \A t \in CoordTasks : cpc[t] # "done"

\* the scheduled refresh and one call of the discovery service
Polling == {"refresh", "discover"}

CoordNext ==
    \/ \E cb \in {Callbacks[i] : i \in 1..Len(Callbacks)} : NoRunDone /\ RegisterCallback(cb)
    \/ \E t \in Polling : NoRunDone /\ StartRefresh(t)
    \/ \E t \in Polling : NoRunDone /\ StartDiscover(t)
    \/ \E t \in Polling : NoRunDone /\ FetchReturn(t)
    \/ \E t \in Polling : NoRunDone /\ FetchRaise(t)
    \/ \E t \in Polling : NoRunDone /\ CallbackReturn(t)
    \/ \E t \in Polling : NoRunDone /\ CallbackRaise(t)
    \/ \E t \in Polling : NoRunDone /\ RefreshRequestReturn(t)
    \/ \E t \in Polling : NoRunDone /\ RefreshRequestRaise(t)
    \/ \E t \in Polling : CoordDone(t)

\* two calls of the discovery service in flight together
Discoveries == {"discover", "discover2"}

ConcurrentNext ==
    \/ \E cb \in {Callbacks[i] : i \in 1..Len(Callbacks)} : NoRunDone /\ RegisterCallback(cb)
    \/ \E t \in Discoveries : NoRunDone /\ StartDiscover(t)
    \/ \E t \in Discoveries : NoRunDone /\ FetchReturn(t)
    \/ \E t \in Discoveries : NoRunDone /\ FetchRaise(t)
    \/ \E t \in Discoveries : NoRunDone /\ CallbackReturn(t)
    \/ \E t \in Discoveries : NoRunDone /\ CallbackRaise(t)
    \/ \E t \in Discoveries : NoRunDone /\ RefreshRequestReturn(t)
    \/ \E t \in Discoveries : NoRunDone /\ RefreshRequestRaise(t)
    \/ \E t \in Discoveries : CoordDone(t)

(***************************************************************************)
(* The sensors, sensor.py                                                  *)
(***************************************************************************)
\* The sensor key the records are probed for; every category has a sensor
\* description with it (sensor.py 32, 101, 155, 358).
SensorKey == "temperature"

\* A value as the API sends it: a number, a string holding a number, a
\* boolean, JSON null.  Absent: the record has no such key.
Absent == "absent"
RawValues == {"20", "'21.5'", "true", "null"}

\* a device record as the sensors see it: its id, the value under the sensor
\* key on the record itself, and the value under the key in each telemetry
\* sample, latest first (no samples: telemetry missing, empty or not a list)
SensorRecord(id, direct, telemetry) == [id |-> id, direct |-> direct, telemetry |-> telemetry]

\* the device types async_setup_entry gives the sensors of each category
\* (sensor.py 682, 699, 716, 733)
DeviceTypes == <<"TemperatureController", "Hydrometer", "FermentationChamber", "BrewZilla">>

\* The lists get_all_devices may return for each category.
SensorLists(k) ==
    CASE k = 1 -> {<<>>,
                   <<SensorRecord("A", "20", <<"'21.5'">>)>>,
                   <<SensorRecord("A", Absent, <<"'21.5'", "true">>)>>,
                   <<SensorRecord("A", Absent, <<Absent, "true">>)>>,
                   <<SensorRecord("A", "null", <<"true">>)>>,
                   <<SensorRecord("A", Absent, <<>>)>>}
      [] k = 2 -> {<<>>,
                   <<SensorRecord("B", "true", <<>>)>>,
                   <<SensorRecord("X", "20", <<>>), SensorRecord("B", Absent, <<"20", "'21.5'">>)>>}
      [] k = 3 -> {<<>>,
                   <<SensorRecord("C", "20", <<>>)>>,
                   <<SensorRecord("C", Absent, <<"'21.5'">>)>>}
      [] k = 4 -> {<<>>, <<SensorRecord("D", "'21.5'", <<"20">>)>>}

\* the value None of a sensor
NoValue == "None"

\* sensor.py 859-879: _parse_value; None stays None, a boolean becomes 100
\* or 0, a number is kept, a string holding a number becomes that number
ParseValue(raw) ==
    CASE raw = "null"   -> NoValue
      [] raw = "true"   -> "100"
      [] raw = "false"  -> "0"
      [] raw = "'21.5'" -> "21.5"
      [] OTHER          -> raw

\* a probe that looks into the latest telemetry sample before the record
Probe_telemetry_first(device) ==
    IF device.telemetry # <<>> /\ device.telemetry[1] # Absent
    THEN ParseValue(device.telemetry[1])
    ELSE IF device.direct # Absent THEN ParseValue(device.direct)
    ELSE NoValue

\* sensor.py 847-857: the key on the record itself, then in telemetry[0]
Probe(device) ==
    IF device.direct # Absent THEN ParseValue(device.direct)
    ELSE IF device.telemetry # <<>> /\ device.telemetry[1] # Absent
    THEN ParseValue(device.telemetry[1])
    ELSE NoValue

\* sensor.py 785-796: _sensor_data_available
SensorDataAvailable(device) ==
    \/ device.direct # Absent
    \/ device.telemetry # <<>> /\ device.telemetry[1] # Absent

\* sensor.py 833-837: the list native_value searches
SensorDevices(s) ==
    IF s.device_type = "TemperatureController"
    THEN data[1].controllers
    ELSE data[1].hydrometers

\* sensor.py 839-845: the first record of the list with the sensor's id
Matches(s, devs) == {i \in 1..Len(devs) : devs[i].id = s.device_id}
FirstMatch(s, devs) == devs[CHOOSE i \in Matches(s, devs) : \A j \in Matches(s, devs) : i <= j]

\* sensor.py 827-857: RaptSensor.native_value
NativeValue(s) ==
    IF data = <<>> THEN NoValue
    ELSE IF Matches(s, SensorDevices(s)) = {} THEN NoValue
    ELSE Probe(FirstMatch(s, SensorDevices(s)))

\* sensor.py 881-883: RaptSensor.available
Available(s) == last_update_success /\ NativeValue(s) # NoValue

\* sensor.py 673-735: the sensors created for the records of one category
SensorsOf(k, devs) ==
    {[device_id |-> devs[i].id, device_type |-> DeviceTypes[k], key |-> SensorKey] :
        i \in {j \in 1..Len(devs) : SensorDataAvailable(devs[j])}}

NoReading == [sensor |-> "none"]

SensorInit ==
    /\ entities = {}
    /\ reading = NoReading

\* coordinator.py 33-61: a scheduled refresh ends, with the four lists
\* get_all_devices returned or with UpdateFailed
Poll ==
    /\ \/ \E f \in {<<a, b, c, d>> : a \in SensorLists(1), b \in SensorLists(2),
                                     c \in SensorLists(3), d \in SensorLists(4)} :
             /\ data' = <<Snapshot(f)>>
             /\ devices' = Merged(f)
             /\ last_update_success' = TRUE
       \/ /\ last_update_success' = FALSE
          /\ UNCHANGED <<data, devices>>
    /\ reading' = NoReading
    /\ UNCHANGED <<entities, known_device_ids, discovery_callbacks, cpc, fetched,
                   new_devices, cb_next, requested, outcome, cb_log, seen_by, requests>>

\* sensor.py 651-741: async_setup_entry adds a sensor for every record of
\* the snapshot and every described key the record has data for
SetupEntry ==
    /\ entities = {} /\ data # <<>>
    /\ entities' = SensorsOf(1, data[1].controllers) \cup SensorsOf(2, data[1].hydrometers)
                      \cup SensorsOf(3, data[1].fermentation_chambers)
                      \cup SensorsOf(4, data[1].brewzillas)
    /\ reading' = NoReading
    /\ UNCHANGED coordVars

\* sensor.py 827-857, 881-884: the platform reads the state of sensor s
ReadState(s) ==
    /\ s \in entities
    /\ reading' = [sensor |-> s, value |-> NativeValue(s), available |-> Available(s)]
    /\ UNCHANGED <<entities, coordVars>>

SensorNext ==
    \/ Poll
    \/ SetupEntry
    \/ \E s \in entities : ReadState(s)

(***************************************************************************)
(* Specifications                                                          *)
(***************************************************************************)
Init == ClientInit /\ CoordInit /\ SensorInit

Next == ClientNext /\ UNCHANGED <<coordVars, sensorVars>>

\* the client under concurrent callers
Spec == Init /\ [][Next]_vars

NextCoord == CoordNext /\ UNCHANGED <<clientVars, sensorVars>>

\* the coordinator's refresh and discovery
SpecCoord == Init /\ [][NextCoord]_vars

\* Every network call is answered or fails, every sleep whose end the clock
\* can reach is woken, the event loop runs a caller that is ready, and the
\* clock goes on.  The conditions are on the callers' own steps: a step that
\* stays possible is taken, whatever the other caller does in between.
Fairness ==
    /\ WF_clientVars(Tick)
    /\ \A t \in Callers :
          /\ WF_clientVars(Acquire(t))
          /\ WF_clientVars(WakeUp(t))
          /\ WF_clientVars(AuthReturn(t))
          /\ WF_clientVars(FirstResponse(t))
          /\ WF_clientVars(ReauthReturn(t))
          /\ WF_clientVars(RetryResponse(t))
          /\ WF_clientVars(Done(t))

\* the steps of callers that fetch: every call goes through
\* _rate_limited_request
FetchNext ==
    \/ NoneDone /\ Tick
    \/ \E t \in Callers : NoneDone /\ CallFetch(t)
    \/ \E t \in Callers : NoneDone /\ Acquire(t)
    \/ \E t \in Callers : NoneDone /\ WakeUp(t)
    \/ \E t \in Callers : NoneDone /\ AuthReturn(t)
    \/ \E t \in Callers : NoneDone /\ FirstResponse(t)
    \/ \E t \in Callers : NoneDone /\ ReauthReturn(t)
    \/ \E t \in Callers : NoneDone /\ RetryResponse(t)
    \/ \E t \in Callers : Done(t)

NextFair == FetchNext /\ UNCHANGED <<coordVars, sensorVars>>

\* the callers of _rate_limited_request when the network calls and the
\* sleeps end
SpecFair == Init /\ [][NextFair]_vars /\ Fairness

NextConcurrent == ConcurrentNext /\ UNCHANGED <<clientVars, sensorVars>>

\* the coordinator with two discoveries in flight together
SpecConcurrent == Init /\ [][NextConcurrent]_vars

NextSensor == SensorNext /\ UNCHANGED clientVars

\* the sensors reading the snapshots of successive polls
SpecSensor == Init /\ [][NextSensor]_vars


(***************************************************************************)
(* Properties of the client                                                *)
(***************************************************************************)
InGate == {"sleep", "auth", "request", "reauth", "retry"}

\* caller t passes api.py 111-113 in this step: it stamps _last_request_time
\* and runs _ensure_authenticated
Stamps(t) == pc[t] \in {"idle", "lock", "sleep", "auth_direct"} /\ pc'[t] \in {"auth", "request"}

Last(lg) == lg[Len(lg)]
CountOf(lg, e) == Cardinality({i \in 1..Len(lg) : lg[i].e = e})
IndexOf(lg, ev) == CHOOSE i \in 1..Len(lg) : lg[i] = ev /\ \A j \in 1..(i-1) : lg[j] # ev
Has(lg, ev) == \E i \in 1..Len(lg) : lg[i] = ev
\* what a call did after its first data request was answered 401
After401(lg) == SubSeq(lg, IndexOf(lg, Ev("status", 401)) + 1, Len(lg))

\* C1: every stamp of _last_request_time is at least 15 seconds after the
\* stamp before it, whichever callers made the two requests.
C1_StampSpacing ==
    [][\A t \in Callers :
          (Stamps(t) /\ last_request_time # None)
             => /\ last_request_time' = now
                /\ last_request_time' >= last_request_time + RATE_LIMIT_SECONDS]_vars

\* C1 witness: a caller that arrived early sleeps in the gate while the
\* other caller is queued behind it.
C1_Witness ==
    \E t, u \in Callers :
        /\ pc[t] = "sleep" /\ pc[u] = "lock"
        /\ now < sleep_until
        /\ sleep_until = last_request_time + RATE_LIMIT_SECONDS

\* C2: every caller between the spacing check and the end of its request
\* (sleep, stamp, authentication, request, 401 retry) holds the lock, so at
\* most one caller is inside the gate, and a queued caller is never the owner.
C2_GateExclusive ==
    /\ \A t \in Callers : pc[t] \in InGate => lock_owner = t
    /\ \A t \in Callers : pc[t] = "lock" => lock_owner # t
    /\ Cardinality({t \in Callers : pc[t] \in InGate}) <= 1

\* C2 witness: the gate is held through the retry after a 401 while the
\* other caller waits for it.
C2_Witness ==
    \E t, u \in Callers : pc[t] = "retry" /\ lock_owner = t /\ pc[u] = "lock"

\* C3: _ensure_authenticated makes no token request iff a token exists and
\* now < expiry, and exactly one otherwise; the answer to that request is
\* followed by no further token request of _ensure_authenticated.  The
\* token and expiry it looks at are those stored when the caller passes the
\* stamp, the ones validate_connection's own authenticate() just stored
\* included.
C3_EnsureAuthenticated ==
    [][\A t \in Callers :
          /\ Stamps(t) =>
                LET valid == /\ bearer_token' # None
                             /\ token_expires_at' # None
                             /\ now < token_expires_at'
                IN  /\ valid  => /\ CountOf(log'[t], "auth") = CountOf(log[t], "auth")
                                 /\ pc'[t] = "request"
                    /\ ~valid => /\ CountOf(log'[t], "auth") = CountOf(log[t], "auth") + 1
                                 /\ pc'[t] = "auth"
          /\ (pc[t] = "auth" /\ pc'[t] # "auth")
                => CountOf(log'[t], "auth") = CountOf(log[t], "auth")]_vars

\* C3 witness: a stored token is found expired at the very instant of its
\* expiry and the caller waits for the one token request.
C3_Witness ==
    \E t \in Callers :
        /\ pc[t] = "auth"
        /\ bearer_token # None
        /\ token_expires_at = now /\ last_request_time = now
        /\ CountOf(log[t], "auth") = 1

\* the data requests and stored tokens among the log entries a
SentAfter(a)   == {i \in 1..Len(a) : a[i].e = "send"}
StoredAfter(a) == {i \in 1..Len(a) : a[i].e = "stored"}
\* a data request of a was answered with a status other than 200
NonOk(a) == \E i \in 1..Len(a) : a[i].e = "status" /\ a[i].v # 200
\* the retry carries the token the re-authentication stored
RetryCarriesNewToken(a) ==
    \E i \in StoredAfter(a) : \E j \in SentAfter(a) : i < j /\ a[j].v = a[i].v

\* C4 as claimed: after a 401 on the first data request there are exactly one
\* authenticate call and exactly one retry, with the new token; a non-200
\* retry raises RaptApiError.
C4_Original ==
    \A t \in Callers :
        (pc[t] = "done" /\ Has(log[t], Ev("status", 401))) =>
            LET a == After401(log[t])
            IN  /\ CountOf(a, "auth") = 1
                /\ CountOf(a, "send") = 1
                /\ RetryCarriesNewToken(a)
                /\ NonOk(a) => Last(a).e \in RaptApiErrors

\* C4 amended: after a 401 on the first data request exactly one authenticate
\* call follows; if it succeeds exactly one retry follows, carrying the token
\* just obtained, and if it raises the call raises with no retry; a retry
\* answered non-200 raises RaptApiError; never a third request or a second
\* re-authentication.
C4_RetryOnce ==
    \A t \in Callers :
        (pc[t] = "done" /\ Has(log[t], Ev("status", 401))) =>
            LET lg == log[t]
                a  == After401(lg)
            IN  /\ CountOf(lg, "send") - CountOf(a, "send") = 1
                /\ CountOf(a, "auth") = 1
                /\ a[1].e = "auth"
                /\ CountOf(a, "send") <= 1
                /\ CountOf(a, "send") = 1 =>
                      /\ RetryCarriesNewToken(a)
                      /\ NonOk(a) => Last(a).e = ErrAfterReauth
                /\ CountOf(a, "send") = 0 =>
                      /\ Last(a).e \notin {"return", "send", "auth", "stored", "status"}
                      /\ Len(a) = 2 + CountOf(a, "stored")

\* C4 witness: the retry after a successful re-authentication was answered
\* 401 again and the call has raised.
C4_Witness ==
    \E t \in Callers :
        /\ pc[t] = "done"
        /\ Has(log[t], Ev("status", 401))
        /\ Has(After401(log[t]), Ev("status", 401))
        /\ Last(log[t]).e = ErrAfterReauth

\* an authenticate() call of caller t ends in this step by raising
AuthFails(t) ==
    /\ pc[t] \in {"auth", "reauth", "auth_direct"}
    /\ pc'[t] = "done"
    /\ Last(log'[t]).e # "return"

\* C9 as claimed: a failing authenticate() raises RaptApiError and leaves the
\* stored token and expiry as they were.
C9_FailedAuthKeepsToken ==
    [][\A t \in Callers :
          AuthFails(t) =>
              /\ Last(log'[t]).e \in RaptApiErrors
              /\ bearer_token' = bearer_token
              /\ token_expires_at' = token_expires_at]_vars

\* C10 as claimed: token and expiry are both absent, or both present and
\* stored from the same token response.
C10_TokenExpiryTogether ==
    \/ bearer_token = None /\ token_expires_at = None
    \/ bearer_token # None /\ token_expires_at # None /\ expiry_from = bearer_token

\* caller t sends a data request in this step (first request or retry)
SendsIn(t) == Len(log'[t]) > Len(log[t]) /\ Last(log'[t]).e = "send"

\* C11 as claimed: every data request carries a token that is present, is the
\* stored one and is not yet expired when it is sent; a failed authentication
\* ends the call with no data request sent after it.
C11_SentTokenValid ==
    [][\A t \in Callers :
          /\ SendsIn(t) =>
                /\ Last(log'[t]).v # None
                /\ Last(log'[t]).v = bearer_token'
                /\ token_expires_at' # None
                /\ now' < token_expires_at'
          /\ (pc[t] \in {"auth", "reauth"} /\ AuthFails(t)) =>
                CountOf(log'[t], "send") = CountOf(log[t], "send")]_vars

\* caller t's authenticate() stores an expiry in this step, computed from a
\* token response whose expires_in field is v (None when the field is absent)
StoresExpiryFrom(t, v) ==
    /\ CountOf(log'[t], "expires_in") = CountOf(log[t], "expires_in") + 1
    /\ \E i \in (Len(log[t]) + 1)..Len(log'[t]) : log'[t][i] = Ev("expires_in", v)

\* C15: a successful authenticate() stores as expiry the time of the
\* authentication plus exactly 2700 seconds when the token response has no
\* expires_in, and plus expires_in seconds when it has one.
C15_ExpiryComputed ==
    [][\A t \in Callers :
          /\ StoresExpiryFrom(t, None) => token_expires_at' = now + 2700
          /\ \A v \in ExpiresInValues :
                StoresExpiryFrom(t, v) => token_expires_at' = now + v]_vars

\* C15 witness: at a time after the start, a token response without
\* expires_in has been stored by the call that is still running.
C15_Witness ==
    \E t \in Callers :
        /\ now > 0 /\ pc[t] = "request"
        /\ Last(log[t]).e = "send" /\ log[t][Len(log[t]) - 1] = Ev("expires_in", None)
        /\ token_expires_at = now + 2700

\* what a call ends with when the transport of its token request or data
\* request fails: a refused connection or failed DNS lookup (ClientError),
\* or the 30-second request timeout
TransportFailures == {ErrNetwork, ExcTimeout}

\* C19 as claimed: every transport-level failure, the request timeout
\* included, reaches the caller as the RaptApiError "Network error".
C19_TransportWrapped ==
    \A t \in Callers :
        (pc[t] = "done" /\ op[t] # "validate_connection" /\ exc[t] \in TransportFailures)
            => exc[t] = ErrNetwork

\* the call whose log is lg had its first data request answered with the
\* error status s (not 200, not 401) and the body b
FirstAnswered(lg, s, b) ==
    /\ ~Has(lg, Ev("status", 401))
    /\ \E i \in 1..(Len(lg) - 1) : lg[i] = Ev("status", s) /\ lg[i + 1] = Ev("body", b)

\* C20: a first data response with a status other than 200 and 401 makes the
\* call raise RaptApiError with the message of its status: 403 forbidden,
\* 404 not found, 500 and above server error, anything else the generic
\* request failure; the message carries the response body.
C20_StatusErrors ==
    \A t \in Callers : \A s \in {403, 404, 418, 500, 503} : \A b \in ErrorTexts :
        (pc[t] = "done" /\ FirstAnswered(log[t], s, b)) =>
            /\ Last(log[t]).v = b
            /\ Last(log[t]).e \in RaptApiErrors
            /\ s = 403 => Last(log[t]).e = "RaptApiError: Access forbidden"
            /\ s = 404 => Last(log[t]).e = "RaptApiError: API endpoint not found"
            /\ s >= 500 => Last(log[t]).e = "RaptApiError: Server error"
            /\ (s # 403 /\ s # 404 /\ s < 500) =>
                  Last(log[t]).e = "RaptApiError: Request failed"
            /\ op[t] = "fetch" => exc[t] = Last(log[t]).e

\* C20 witness: a fetch whose first data request was answered 503 has ended
\* with the server error carrying the body sent.
C20_Witness ==
    \E t \in Callers :
        /\ pc[t] = "done" /\ op[t] = "fetch"
        /\ FirstAnswered(log[t], 503, 2)
        /\ exc[t] = ErrServer /\ Last(log[t]).v = 2

\* an authenticate() call of caller t handles its token response in this step
AuthAnswered(t) == pc[t] \in {"auth", "reauth", "auth_direct"} /\ pc'[t] # pc[t]

C22_ValidateConnection ==
    \A t \in Callers :
        (pc[t] = "done" /\ op[t] = "validate_connection") =>
            /\ exc[t] = "none"
            /\ ret[t] \in {"True", "False"}
            /\ ret[t] = "True" <=> Last(log[t]).e = "return"
            /\ ret[t] = "True" =>
                  /\ log[t][1] = Ev("auth", None) /\ log[t][2].e = "stored"
                  /\ CountOf(log[t], "send") >= 1
                  /\ log[t][Len(log[t]) - 1] = Ev("status", 200)
            /\ ret[t] = "False" =>
                  Last(log[t]).e \in RaptApiErrors \cup {ExcTimeout, ExcTypeError}

\* C22 witness: validate_connection has returned False after its
\* authenticate() succeeded and its fetch ran into the request timeout.
C22_Witness ==
    \E t \in Callers :
        /\ pc[t] = "done" /\ op[t] = "validate_connection"
        /\ ret[t] = "False" /\ exc[t] = NoExc
        /\ log[t][2].e = "stored" /\ CountOf(log[t], "send") = 1
        /\ Last(log[t]).e = ExcTimeout

\* C23 as claimed: every data request, the retry after a 401 and a request
\* sent after an authentication inside the gate included, is sent at least 15
\* seconds after the data request the client sent before it.
C23_SendSpacing ==
    [][\A t \in Callers :
          (SendsIn(t) /\ last_sent # None) =>
              /\ last_sent' = now'
              /\ last_sent' >= last_sent + RATE_LIMIT_SECONDS]_vars

\* the call whose log is lg has ended with its last authenticate() raising
\* a RaptApiError: nothing was sent after that authenticate() began
AuthFailedIn(lg) ==
    /\ lg # <<>> /\ Last(lg).e \in RaptApiErrors
    /\ \E i \in 1..Len(lg) :
          /\ lg[i].e = "auth"
          /\ \A j \in (i + 1)..Len(lg) : lg[j].e \notin {"auth", "send", "status"}

\* C24 as claimed: when a call has ended with authenticate() raising its
\* error, the re-authentication after a 401 included, the client is left in a state in
\* which _ensure_authenticated authenticates again: no token, no expiry, or
\* an expiry that has passed.
C24_FailedAuthForcesAuth ==
    \A t \in Callers :
        (pc[t] = "done" /\ AuthFailedIn(log[t])) =>
            \/ bearer_token = None
            \/ token_expires_at = None
            \/ now >= token_expires_at


\* the place of the first data request in the log lg (0: none was sent)
FirstSend(lg) ==
    IF \E i \in 1..Len(lg) : lg[i].e = "send"
    THEN CHOOSE i \in 1..Len(lg) : lg[i].e = "send" /\ \A j \in 1..(i - 1) : lg[j].e # "send"
    ELSE 0

\* the authenticate() calls in the log of operation o that were made by
\* _rate_limited_request: all but the direct one of authenticate() and
\* validate_connection
GateAuths(o, lg) ==
    CountOf(lg, "auth") - (IF o \in {"authenticate", "validate_connection"} THEN 1 ELSE 0)

\* C28: a call of _rate_limited_request whose first data request was answered
\* with anything but 401 (200, another status, a transport failure) has sent
\* that one data request only and has not authenticated after it; no call
\* sends more than two data requests or authenticates more than twice.
C28_NoFurtherRetry ==
    \A t \in Callers :
        LET lg == log[t]
            i  == FirstSend(lg)
        IN  /\ CountOf(lg, "send") <= 2
            /\ GateAuths(op[t], lg) <= 2
            /\ (pc[t] = "done" /\ i > 0 /\ lg[i + 1] # Ev("status", 401)) =>
                  /\ CountOf(lg, "send") = 1
                  /\ \A j \in (i + 1)..Len(lg) : lg[j].e # "auth"

\* C28 witness: a fetch that authenticated inside the gate and whose data
\* request was answered 403 has ended after that one request, with the
\* other caller waiting for the lock.
C28_Witness ==
    \E t, u \in Callers :
        /\ pc[t] = "done" /\ op[t] = "fetch"
        /\ CountOf(log[t], "auth") = 1 /\ CountOf(log[t], "send") = 1
        /\ Has(log[t], Ev("status", 403))
        /\ exc[t] = ErrForbidden
        /\ pc[u] = "lock"


\* caller t gets the lock of the gate in this step
EntersGate(t) ==
    /\ pc[t] \in {"idle", "lock", "auth_direct"}
    /\ pc'[t] \in {"sleep", "auth", "request"}

\* caller t is past the stamp: it authenticates or waits for a data response
PastStamp(t) == pc[t] \in {"auth", "request", "reauth", "retry"}

\* C29: inside the gate a caller first works out its sleep and sleeps, with
\* the stamp untouched and nothing authenticated or sent; then it stamps
\* _last_request_time, and only then authenticates and sends.  Nothing but
\* that stamp writes _last_request_time, so a call whose authentication or
\* request fails leaves its stamp behind, and the next caller passes the
\* stamp no earlier than 15 seconds after it.
C29_GateOrder ==
    [][\A t \in Callers :
          /\ (pc[t] # "sleep" /\ pc'[t] = "sleep") =>
                /\ lock_owner' = t
                /\ last_request_time' = last_request_time
                /\ sleep_until' = last_request_time + 15
                /\ CountOf(log'[t], "send") = 0
                /\ GateAuths(op'[t], log'[t]) = 0
          /\ Stamps(t) =>
                /\ lock_owner' = t
                /\ last_request_time' = now
                /\ last_request_time = None \/ now >= last_request_time + 15
                /\ pc[t] = "sleep" => now >= sleep_until
                /\ CountOf(log[t], "send") = 0 /\ GateAuths(op[t], log[t]) = 0
                /\ pc'[t] = "auth" => Last(log'[t]).e = "auth" /\ CountOf(log'[t], "send") = 0
          /\ PastStamp(t) =>
                /\ last_request_time' = last_request_time
                /\ pc'[t] \in {"auth", "request", "reauth", "retry", "done"}
                /\ pc'[t] = "done" => last_request_time' # None
          /\ last_request_time' # last_request_time => \E u \in Callers : Stamps(u)]_vars

\* C29 witness: the only call so far stamped the request start and failed in
\* its authentication, so that no data request was ever sent; the next
\* caller sleeps until 15 seconds after that stamp.
C29_Witness ==
    \E t \in Callers :
        /\ pc[t] = "sleep" /\ now < sleep_until
        /\ last_sent = None /\ bearer_token = None
        /\ last_request_time # None
        /\ sleep_until = last_request_time + 15


\* C30: a caller entering the gate sleeps exactly when fewer than 15 seconds
\* have passed since the previous request start of the client, and then for
\* 15 seconds less the time elapsed; the first call of the client and a call
\* arriving 15 seconds or more after the previous start do not sleep.
C30_SleepTime ==
    [][\A t \in Callers :
          EntersGate(t) =>
              IF last_request_time = None THEN pc'[t] # "sleep"
              ELSE LET elapsed == now - last_request_time
                   IN  /\ elapsed >= 15 => pc'[t] # "sleep"
                       /\ elapsed < 15 =>
                             /\ pc'[t] = "sleep"
                             /\ sleep_until' - now = 15 - elapsed
                             /\ sleep_until' - now > 0]_vars

\* C30 witness: a caller that arrived 5 seconds after the previous request
\* start sleeps for the remaining 10.
C30_Witness ==
    \E t \in Callers :
        /\ pc[t] = "sleep"
        /\ now - last_request_time = 5
        /\ sleep_until - now = 10


\* the sleeps of the callers ahead of t end at times the clock reaches: that
\* of the caller inside the gate, and that of a caller queued before t,
\* which will sleep until 15 seconds after the last stamp
SleepsEnd(t) ==
    /\ sleep_until <= MaxTime
    /\ (lock_waiters # <<>> /\ Head(lock_waiters) # t) =>
          (last_request_time = None \/ last_request_time + 15 <= MaxTime)

\* C36: the lock is not held by a caller whose call has ended, whatever the
\* way it ended, and a caller waiting for the lock gets it, as long as the
\* sleeps of the callers ahead of it end.
C36_GateLiveness ==
    /\ [](\A t \in Callers : pc[t] \in {"done", "idle"} => lock_owner # t)
    /\ \A t \in Callers :
          (pc[t] = "lock" /\ SleepsEnd(t)) ~> (lock_owner = t)

\* C36 witness: a fetch has failed inside the gate and released the lock
\* while the other caller is queued for it.
C36_Witness ==
    \E t, u \in Callers :
        /\ pc[u] = "done" /\ op[u] = "fetch" /\ exc[u] = ExcTimeout
        /\ pc[t] = "lock" /\ lock_waiters = <<t>>
        /\ lock_owner = NoTask


(***************************************************************************)
(* Properties of the coordinator                                           *)
(***************************************************************************)
\* the step is one of task t's own
StepOf(t) == cpc'[t] # cpc[t] \/ fetched'[t] # fetched[t] \/ cb_log'[t] # cb_log[t]

\* the step is the successful end of the scheduled refresh
RefreshSucceeds == cpc["refresh"] = "fetching" /\ outcome'["refresh"] = "ok"

Elements(seq) == {seq[i] : i \in 1..Len(seq)}
\* record d carries an id, and not the empty one
HasUsableId(d) == d.has_id /\ d.id # ""
\* the usable ids among the records of seq
IdsOf(seq) == {d.id : d \in {x \in Elements(seq) : HasUsableId(x)}}
Failed(o) == o \in {UpdateFailedApi, UpdateFailedOther}

\* C5: no step of a scheduled refresh other than its successful end writes
\* the snapshot, the merged device list or the known-device set; a refresh
\* that fails at any fetch leaves all three as they were.
C5_FailedRefreshWritesNothing ==
    [][(cpc["refresh"] = "fetching" /\ StepOf("refresh") /\ ~RefreshSucceeds)
          => UNCHANGED <<data, devices, known_device_ids>>]_vars

\* C5 witness: a refresh has failed after fetches that returned an id not yet
\* known, while a snapshot of an earlier poll is held.
C5_Witness ==
    /\ cpc["refresh"] = "done" /\ Failed(outcome["refresh"])
    /\ Len(fetched["refresh"]) = 3
    /\ IdsOf(fetched["refresh"][1] \o fetched["refresh"][2]) \ known_device_ids # {}
    /\ data # <<>>

\* C6: a manual discovery whose fetch succeeded finds as new exactly the
\* returned ids that were not known, each once and with a returned record,
\* records all returned ids as known, and hands every callback it invokes
\* that list.
C6_DiscoveryDelivers ==
    [][\A t \in CoordTasks \ {"refresh"} :
          /\ (cpc[t] = "fetching" /\ Len(fetched'[t]) = Len(Categories)) =>
                LET all == Merged(fetched'[t])
                    new == new_devices'[t]
                IN  /\ IdsOf(new) = IdsOf(all) \ known_device_ids
                    /\ \A i, j \in 1..Len(new) : i # j => new[i].id # new[j].id
                    /\ \A i \in 1..Len(new) : new[i] \in Elements(all) /\ HasUsableId(new[i])
                    /\ known_device_ids' = known_device_ids \cup IdsOf(all)
                    /\ new = <<>> => cb_log'[t] = <<>>
          /\ (cb_log'[t] # cb_log[t] /\ cb_log'[t] # <<>>) =>
                /\ Len(cb_log'[t]) = Len(cb_log[t]) + 1
                /\ Last(cb_log'[t]).devices = new_devices'[t]
                /\ new_devices'[t] # <<>>]_vars

\* C6 witness: a discovery whose result held two records with one id has
\* called a callback with a list holding that id once.
C6_Witness ==
    \E t \in CoordTasks \ {"refresh"} :
        /\ cpc[t] = "callback"
        /\ cb_log[t] # <<>>
        /\ LET all == Merged(fetched[t])
           IN  \E i, j \in 1..Len(all) :
                  /\ i # j /\ DeviceId(all[i]) = DeviceId(all[j])
                  /\ DeviceId(all[i]) \in IdsOf(cb_log[t][1].devices)

\* C7: no step of a scheduled refresh invokes a discovery callback or touches
\* a discovery's list of new devices; its successful end adds the returned
\* ids to the known-device set and its other steps leave the set alone.
C7_RefreshNeverNotifies ==
    [][StepOf("refresh") =>
          /\ cb_log' = cb_log
          /\ new_devices' = new_devices
          /\ discovery_callbacks' = discovery_callbacks
          /\ RefreshSucceeds =>
                known_device_ids' =
                    known_device_ids \cup IdsOf(Merged(fetched'["refresh"]))
          /\ ~RefreshSucceeds => known_device_ids' = known_device_ids]_vars

\* C7 witness: with a callback registered, a refresh has ended well and was
\* the first to see an id.
C7_Witness ==
    /\ cpc["refresh"] = "done" /\ outcome["refresh"] = "ok"
    /\ discovery_callbacks # <<>>
    /\ \E id \in IdsOf(Merged(fetched["refresh"])) : seen_by[id] = "refresh"

\* the list of category k in a snapshot
CategoryList(snap, k) ==
    CASE k = 1 -> snap.controllers
      [] k = 2 -> snap.hydrometers
      [] k = 3 -> snap.fermentation_chambers
      [] k = 4 -> snap.brewzillas

\* C8: a record without an id, or with an empty one, is never in the
\* known-device set and never in a callback's argument, and after a successful
\* refresh it is in the snapshot's category list and merged list.
C8_NoIdDevices ==
    /\ \A id \in known_device_ids : id # "" /\ id # NoId
    /\ \A t \in CoordTasks : \A i \in 1..Len(cb_log[t]) :
          \A d \in Elements(cb_log[t][i].devices) : HasUsableId(d)
    /\ (cpc["refresh"] = "done" /\ outcome["refresh"] = "ok") =>
          \A k \in 1..Len(Categories) : \A d \in Elements(fetched["refresh"][k]) :
              ~HasUsableId(d) =>
                  /\ d \in Elements(CategoryList(data[1], k))
                  /\ d \in Elements(data[1].devices)
                  /\ d \in Elements(devices)

\* C8 witness: records without an id are in the snapshot of a successful
\* refresh, and a discovery that fetched them is calling a callback.
C8_Witness ==
    /\ cpc["refresh"] = "done" /\ outcome["refresh"] = "ok"
    /\ DevNoId \in Elements(data[1].devices) /\ DevEmpty \in Elements(data[1].fermentation_chambers)
    /\ \E t \in CoordTasks \ {"refresh"} :
          /\ cpc[t] = "callback" /\ cb_log[t] # <<>>
          /\ DevNoId \in Elements(Merged(fetched[t]))


\* C12: over every step of refreshes and discoveries, successful or failed,
\* the known-device set after the step contains the set before it.
C12_KnownSetGrows == [][known_device_ids \subseteq known_device_ids']_vars

\* C12 witness: the set holds an id first recorded by a refresh and one first
\* recorded by a discovery, and a later refresh that fetched lists without
\* the first id has failed.
C12_Witness ==
    /\ cpc["refresh"] = "done" /\ Failed(outcome["refresh"])
    /\ Len(fetched["refresh"]) >= 1 /\ fetched["refresh"][1] = <<>>
    /\ known_device_ids = {"A", "B"}
    /\ seen_by["A"] = "refresh" /\ seen_by["B"] = "discover"


\* task t invokes a callback in this step
Invokes(t) == cb_log'[t] # cb_log[t] /\ cb_log'[t] # <<>>

\* C13 as claimed: with a callback registered, every id is delivered to the
\* callbacks in the step in which it first appears in a fetched result (the
\* step that records it as known), and an id already known is delivered
\* again only to the remaining callbacks of the discovery that found it.
C13_NewExactlyOnce ==
    [][\A id \in DeviceIds \ {"", NoId} :
          /\ (discovery_callbacks # <<>> /\ id \notin known_device_ids
                 /\ id \in known_device_ids') =>
                \E t \in CoordTasks :
                    Invokes(t) /\ id \in IdsOf(Last(cb_log'[t]).devices)
          /\ \A t \in CoordTasks :
                (id \in known_device_ids /\ Invokes(t)
                   /\ id \in IdsOf(Last(cb_log'[t]).devices)) =>
                      id \in IdsOf(new_devices[t])]_vars


\* the list a fetch has to return for the answer q of its endpoint
ListOf(q) == IF q.body.list THEN q.body.items ELSE <<>>

\* C14: a fetch answered 200 with a body that is not a list returns the empty
\* list and the call goes on; every answered fetch of the call yields the
\* list of its own endpoint, in get_all_devices' result and in the snapshot
\* of a successful refresh.
C14_NonListBody ==
    /\ \A t \in CoordTasks : \A k \in 1..Len(requests[t]) :
          requests[t][k].raised = NoExc =>
              /\ k <= Len(fetched[t])
              /\ fetched[t][k] = ListOf(requests[t][k])
              /\ (k = Len(requests[t]) /\ k < Len(Categories)) => cpc[t] = "fetching"
    /\ (cpc["refresh"] = "done" /\ outcome["refresh"] = "ok") =>
          \A k \in 1..Len(Categories) :
              CategoryList(data[1], k) = ListOf(requests["refresh"][k])

\* C14 witness: a refresh whose first endpoint answered with a non-list body
\* has succeeded with other categories holding devices.
C14_Witness ==
    /\ cpc["refresh"] = "done" /\ outcome["refresh"] = "ok"
    /\ ~requests["refresh"][1].body.list
    /\ data[1].controllers = <<>>
    /\ data[1].hydrometers # <<>> /\ data[1].brewzillas # <<>>


\* C16: the fetches of one get_all_devices call are issued in the order
\* controllers, hydrometers, fermentation chambers, BrewZillas, the k-th only
\* when k-1 have returned their lists; a fetch that raises is the last of its
\* call, and the caller handles the very exception it raised: the refresh
\* reports a RaptApiError as a communication error and anything else as an
\* unexpected error, the discovery logs it.
C16_SequentialFetches ==
    \A t \in CoordTasks :
        LET q == requests[t]
        IN  /\ Len(q) <= 4
            /\ \A k \in 1..Len(q) :
                  /\ q[k].category =
                        <<"controllers", "hydrometers", "fermentation_chambers", "brewzillas">>[k]
                  /\ q[k].raised = NoExc => Len(fetched[t]) >= k
                  /\ q[k].raised # NoExc =>
                        /\ k = Len(q) /\ Len(fetched[t]) = k - 1
                        /\ cpc[t] = "done"
                        /\ t = "refresh" =>
                              outcome[t] = IF q[k].raised \in RaptApiErrors
                                           THEN "UpdateFailed: Error communicating with RAPT API"
                                           ELSE "UpdateFailed: Unexpected error"
                        /\ t # "refresh" => outcome[t] = "logged"
            /\ cpc[t] = "fetching" => Len(fetched[t]) = Len(q) /\ Len(q) < 4

\* C16 witness: the third fetch of a refresh has raised a timeout after two
\* fetches returned, and the refresh has failed with it.
C16_Witness ==
    /\ cpc["refresh"] = "done"
    /\ Len(requests["refresh"]) = 3
    /\ requests["refresh"][3].raised = ExcTimeout
    /\ requests["refresh"][2].raised = NoExc
    /\ outcome["refresh"] = UpdateFailedOther


\* the fetch of task t's get_all_devices raises in this step
FetchFails(t) ==
    /\ Len(requests'[t]) = Len(requests[t]) + 1
    /\ Last(requests'[t]).raised # NoExc

\* C17: every run of async_discover_devices ends by returning, with the
\* error logged when its fetch, a callback or the requested refresh failed;
\* a failing fetch leaves the known-device set as it was, with no callback
\* invoked and no refresh requested.
C17_DiscoveryNeverRaises ==
    [][\A t \in CoordTasks \ {"refresh"} :
          /\ (cpc[t] # "done" /\ cpc'[t] = "done") =>
                /\ outcome'[t] \in {"ok", "logged"}
                /\ outcome'[t] = "ok" => (cpc[t] = "requesting" /\ requested'[t] = 1)
                /\ cpc[t] \in {"fetching", "callback"} => outcome'[t] = "logged"
          /\ FetchFails(t) =>
                /\ cpc'[t] = "done" /\ outcome'[t] = "logged"
                /\ known_device_ids' = known_device_ids
                /\ cb_log'[t] = <<>> /\ new_devices'[t] = <<>>
                /\ requested'[t] = 0]_vars

\* C17 witness: a discovery has ended with the error of its second callback
\* logged, after its first callback returned.
C17_Witness ==
    \E t \in CoordTasks \ {"refresh"} :
        /\ cpc[t] = "done" /\ outcome[t] = "logged"
        /\ Len(cb_log[t]) = 2 /\ requested[t] = 0


\* C18: a discovery invokes the callbacks one at a time in the order of
\* their registration, the next only when the one before has returned, and
\* requests the refresh only when the last registered callback has returned
\* (or at once when there is nothing to deliver); no callback is invoked
\* after the refresh request.
C18_CallbacksInOrder ==
    [][\A t \in CoordTasks \ {"refresh"} :
          /\ Invokes(t) =>
                /\ Len(cb_log'[t]) = Len(cb_log[t]) + 1
                /\ Last(cb_log'[t]).cb = discovery_callbacks[Len(cb_log'[t])]
                /\ \/ cpc[t] = "callback" /\ cb_next[t] = Len(cb_log[t])
                   \/ cpc[t] = "fetching" /\ cb_log[t] = <<>>
                /\ cpc'[t] = "callback"
                /\ requested[t] = 0 /\ requested'[t] = 0
          /\ requested'[t] > requested[t] =>
                /\ requested[t] = 0
                /\ cb_log'[t] = cb_log[t]
                /\ \/ /\ cpc[t] = "callback"
                      /\ Len(cb_log[t]) = Len(discovery_callbacks)
                   \/ /\ cpc[t] = "fetching"
                      /\ new_devices'[t] = <<>> \/ discovery_callbacks = <<>>]_vars

\* C18 witness: with two callbacks registered, a discovery has requested the
\* refresh after the first and then the second were invoked.
C18_Witness ==
    \E t \in CoordTasks \ {"refresh"} :
        /\ cpc[t] = "requesting" /\ requested[t] = 1
        /\ Len(discovery_callbacks) = 2
        /\ Len(cb_log[t]) = 2
        /\ cb_log[t][1].cb = discovery_callbacks[1]
        /\ cb_log[t][2].cb = discovery_callbacks[2]
        /\ discovery_callbacks[1] # discovery_callbacks[2]


\* the discovery t leaves its callback loop in this step, its fetch having
\* succeeded: it requests the refresh or ends on an exception
LoopEnds(t) ==
    /\ cpc[t] \in {"fetching", "callback"}
    /\ cpc'[t] \in {"requesting", "done"}
    /\ Len(fetched'[t]) = 4

\* the number of invocations of callback cb with the list new in the log lg
Invocations(lg, cb, new) ==
    Cardinality({k \in 1..Len(lg) : lg[k] = [cb |-> cb, devices |-> new]})

\* C25 as claimed: when a discovery that found new devices leaves its callback
\* loop, every registered callback has been invoked exactly once with the
\* full list of new devices, whether or not an earlier callback raised; a
\* discovery that found nothing new has invoked no callback.
C25_EveryCallbackInvoked ==
    [][\A t \in CoordTasks \ {"refresh"} :
          LoopEnds(t) =>
              IF new_devices'[t] # <<>>
              THEN \A i \in 1..Len(discovery_callbacks) :
                      Invocations(cb_log'[t], discovery_callbacks[i], new_devices'[t]) = 1
              ELSE cb_log'[t] = <<>>]_vars


\* the ids with a value among the records of the four fetched lists
FetchedIds(f) == {Merged(f)[k].id : k \in {j \in 1..Len(Merged(f)) :
                     Merged(f)[j].has_id /\ Merged(f)[j].id # ""}}

\* C26: an id first returned by a successful refresh is never passed to a
\* callback by any discovery, and a discovery whose fetch returned only such
\* ids invokes no callback.
C26_RefreshSeenIsKnown ==
    \A t \in CoordTasks \ {"refresh"} :
        /\ \A k \in 1..Len(cb_log[t]) : \A j \in 1..Len(cb_log[t][k].devices) :
              LET d == cb_log[t][k].devices[j]
              IN  d.has_id => seen_by[d.id] # "refresh"
        /\ (Len(fetched[t]) = 4
              /\ \A id \in FetchedIds(fetched[t]) : seen_by[id] = "refresh") =>
                  cb_log[t] = <<>>

\* C26 witness: with a callback registered, a discovery whose fetch returned
\* devices, all of them first returned by a refresh, has requested the
\* refresh without invoking a callback.
C26_Witness ==
    \E t \in CoordTasks \ {"refresh"} :
        /\ cpc[t] = "requesting" /\ discovery_callbacks # <<>>
        /\ FetchedIds(fetched[t]) = {"A", "B"}
        /\ \A id \in FetchedIds(fetched[t]) : seen_by[id] = "refresh"
        /\ cb_log[t] = <<>>


\* C27 as claimed: a discovery whose fetch succeeded ends having requested
\* the refresh exactly once, whether or not it found a new device; a
\* discovery whose fetch failed ends having requested none.
C27_RefreshRequestedOnce ==
    [][\A t \in CoordTasks \ {"refresh"} :
          (cpc[t] # "done" /\ cpc'[t] = "done") =>
              requested'[t] = IF Len(fetched'[t]) = 4 THEN 1 ELSE 0]_vars


\* C31: whatever get_all_devices raises during a scheduled refresh, a
\* RaptApiError or anything else, the refresh ends as UpdateFailed with the
\* update marked failed; a finished refresh always goes back to idle and an
\* idle one can always start, and a refresh that succeeds after a failed one
\* puts a snapshot of its own four lists in place of the old one.
C31_FailedRefreshRecovers ==
    [][/\ FetchFails("refresh") =>
             /\ cpc'["refresh"] = "done"
             /\ outcome'["refresh"] \in {"UpdateFailed: Error communicating with RAPT API",
                                         "UpdateFailed: Unexpected error"}
             /\ last_update_success' = FALSE
       /\ cpc["refresh"] = "done" =>
             /\ ENABLED CoordDone("refresh")
             /\ StepOf("refresh") => cpc'["refresh"] = "idle"
       /\ (cpc["refresh"] = "idle" /\ NoRunDone) => ENABLED StartRefresh("refresh")
       /\ cpc["refresh"] = "fetching" => ENABLED FetchReturn("refresh")
       /\ (RefreshSucceeds /\ ~last_update_success) =>
             /\ last_update_success' = TRUE
             /\ Len(data') = 1
             /\ \A k \in 1..4 : CategoryList(data'[1], k) = ListOf(requests'["refresh"][k])]_vars

\* C31 witness: with the snapshot of an earlier poll held and the last
\* refresh failed, a new refresh is under way and three of its fetches have
\* returned.
C31_Witness ==
    /\ cpc["refresh"] = "fetching" /\ Len(fetched["refresh"]) = 3
    /\ ~last_update_success
    /\ data # <<>>


\* C32: the successful end of a refresh makes the snapshot hold the four
\* lists as get_all_devices returned them and, as merged list, their
\* concatenation in the order controllers, hydrometers, fermentation
\* chambers, BrewZillas; the devices accessor returns that same list, and
\* no record of the snapshot comes from anywhere but those four lists.
C32_SnapshotReplaced ==
    [][RefreshSucceeds =>
          LET f   == fetched'["refresh"]
              all == f[1] \o f[2] \o f[3] \o f[4]
          IN  /\ Len(f) = 4 /\ Len(data') = 1
              /\ data'[1].controllers = f[1]
              /\ data'[1].hydrometers = f[2]
              /\ data'[1].fermentation_chambers = f[3]
              /\ data'[1].brewzillas = f[4]
              /\ data'[1].devices = all
              /\ devices' = all
              /\ \A k \in 1..4 : f[k] = ListOf(requests'["refresh"][k])]_vars

\* C32 witness: a refresh has succeeded with a controller, two fermentation
\* chambers, no hydrometer and no BrewZilla, after an earlier refresh was the first to
\* see a device "B" that the new snapshot does not hold.
C32_Witness ==
    /\ cpc["refresh"] = "done" /\ outcome["refresh"] = "ok"
    /\ data[1].controllers # <<>> /\ data[1].hydrometers = <<>>
    /\ data[1].brewzillas = <<>>
    /\ seen_by["B"] = "refresh"
    /\ "B" \notin IdsOf(data[1].devices)
    /\ Len(data[1].devices) = 3


\* C33 as claimed: the last_updated field of a snapshot tells its poll from
\* the poll before it: a successful refresh, which ends later than the one
\* that produced the snapshot held so far, stores a last_updated different
\* from the one held.
C33_LastUpdatedIsTime ==
    [][(RefreshSucceeds /\ data # <<>>) =>
          data'[1].last_updated # data[1].last_updated]_vars


\* C37: every device of the current merged list that has an id, and not the
\* empty one, has that id in the known-device set; so has every device of
\* the merged list of the snapshot.
C37_ListedIdsKnown ==
    /\ \A i \in 1..Len(devices) :
          (devices[i].has_id /\ devices[i].id # "") => devices[i].id \in known_device_ids
    /\ data # <<>> =>
          \A i \in 1..Len(data[1].devices) :
              (data[1].devices[i].has_id /\ data[1].devices[i].id # "") =>
                  data[1].devices[i].id \in known_device_ids

\* C37 witness: the merged list of a successful refresh holds two records
\* with the id "A", one with "B", one with an empty id and one with none,
\* and the known-device set is {"A", "B"}.
C37_Witness ==
    /\ cpc["refresh"] = "done" /\ outcome["refresh"] = "ok"
    /\ Len(devices) = 5
    /\ \E i, j \in 1..Len(devices) : i # j /\ devices[i].id = "A" /\ devices[j].id = "A"
    /\ \E i \in 1..Len(devices) : ~devices[i].has_id
    /\ known_device_ids = {"A", "B"}


\* the ids task t has handed to callbacks in its running or just ended run
Delivered(t) == UNION {IdsOf(cb_log[t][k].devices) : k \in 1..Len(cb_log[t])}

Read == reading.sensor

\* C34: for the record native_value finds for a sensor, the value read is
\* that of the key on the record itself whenever the record has the key,
\* that of the key in telemetry[0] when only that sample has it, and None
\* otherwise: a value held only by an older sample is never used.
C34_DirectFieldWins ==
    (reading # NoReading /\ data # <<>>) =>
        LET devs == IF Read.device_type = "TemperatureController"
                    THEN data[1].controllers ELSE data[1].hydrometers
        IN  \A i \in 1..Len(devs) :
               (devs[i].id = Read.device_id /\ \A j \in 1..(i - 1) : devs[j].id # Read.device_id) =>
                   LET d == devs[i]
                   IN  /\ d.direct # "absent" => reading.value = ParseValue(d.direct)
                       /\ (d.direct = "absent" /\ Len(d.telemetry) >= 1
                             /\ d.telemetry[1] # "absent") =>
                               reading.value = ParseValue(d.telemetry[1])
                       /\ (d.direct = "absent"
                             /\ (Len(d.telemetry) = 0 \/ d.telemetry[1] = "absent")) =>
                               reading.value = "None"

\* C34 witness: the value read for the controller sensor is the 20 of the
\* record itself, while telemetry[0] of the record holds 21.5.
C34_Witness ==
    /\ reading # NoReading /\ data # <<>>
    /\ Read.device_type = "TemperatureController"
    /\ data[1].controllers = <<[id |-> "A", direct |-> "20", telemetry |-> <<"'21.5'">>]>>
    /\ reading.value = "20"


\* the list of the sensor's own category in the snapshot
OwnCategoryList(s) ==
    CASE s.device_type = "TemperatureController" -> data[1].controllers
      [] s.device_type = "Hydrometer"            -> data[1].hydrometers
      [] s.device_type = "FermentationChamber"   -> data[1].fermentation_chambers
      [] s.device_type = "BrewZilla"             -> data[1].brewzillas

\* C35 as claimed: after a successful poll, a sensor of any of the four
\* categories whose device is in the snapshot list of its category with a
\* value that is not null under the sensor's key, on the record or in
\* telemetry[0], reads a value other than None and is available.
C35_ValueFromOwnCategory ==
    (reading # NoReading /\ data # <<>> /\ last_update_success) =>
        \A i \in 1..Len(OwnCategoryList(Read)) :
            LET d == OwnCategoryList(Read)[i]
            IN  (/\ d.id = Read.device_id
                 /\ \/ d.direct \notin {"absent", "null"}
                    \/ /\ d.direct = "absent" /\ Len(d.telemetry) >= 1
                       /\ d.telemetry[1] \notin {"absent", "null"}) =>
                    /\ reading.value # "None"
                    /\ reading.available

====
